---- MODULE Spec2Model ----
(***************************************************************************)
(* A model of the HuggingFace model inference server: the T5ModelService   *)
(* object of model_service.py (its three fields, load_model and            *)
(* generate_text with their suspension points), the request schema of      *)
(* models.py and the route handlers and startup hook of main.py.           *)
(*                                                                         *)
(* Strings that the handlers produce are sequences of words, so that      *)
(* "the detail contains ..." is a check on the text and not on a name.    *)
(* Temperatures are counted in tenths (0.1 is 1, 2.0 is 20).               *)
(***************************************************************************)
EXTENDS Integers, Sequences, FiniteSets, TLC

\* ------------------------------------------------------------- bounds

\* load_model calls in one run, numbered in the order they are made: call
\* 1 is startup_event's, the others are direct calls on the service object
\* (as the test-suite makes them).
MaxLoads == 2

\* POST /generate requests that may be in flight at the same time.
MaxInFlight == 2

\* time.time() - start_time, in whole ticks, as read at model_service.py:132.
MaxElapsed == 1

\* ---------------------------------------------------- program constants

TEXT_MIN_LENGTH == 1
TEXT_MAX_LENGTH == 512
MAX_LENGTH_DEFAULT == 150
MAX_LENGTH_GE == 10
MAX_LENGTH_LE == 512
TEMPERATURE_DEFAULT == 10
TEMPERATURE_GE == 1
TEMPERATURE_LE == 20
NUM_BEAMS_DEFAULT == 4
NUM_BEAMS_GE == 1
NUM_BEAMS_LE == 10

\* Python's None for a model or tokenizer handle; a loaded handle is the
\* number of the load_model call that created the object.
NoneHandle == 0

MODEL_NAME == <<"t5-small">>

\* ------------------------------------------------------------- strings

\* Python's `sub in s` on word sequences.
Contains(s, sub) ==
    \E i \in 1..(Len(s) - Len(sub) + 1) : SubSeq(s, i, i + Len(sub) - 1) = sub

DETAIL_READY_NOT_LOADED ==
    <<"Model", "is", "not", "loaded", "yet", ".", "Server", "is", "not",
      "ready", "for", "inference", "requests", ".">>

DETAIL_READY_FAILED ==
    <<"Server", "is", "not", "ready", "to", "accept", "requests">>

DETAIL_LIVE_FAILED == <<"Server", "liveness", "check", "failed">>

DETAIL_GENERATE_NOT_LOADED ==
    <<"Model", "is", "not", "loaded", "yet", ".", "Please", "wait", "for",
      "model", "initialization", ".">>

PREFIX_GENERATION_FAILED == <<"Text", "generation", "failed", ":">>

ENDPOINTS ==
    <<"/", "/health", "/health/ready", "/health/live", "/model/status",
      "/generate">>

\* The paths the route decorators of main.py register handlers on.
HandlerRoutes ==
    {"/", "/health", "/health/ready", "/health/live", "/model/status",
     "/generate"}

\* The documentation routes FastAPI mounts for docs_url="/docs" and
\* redoc_url="/redoc", with the schema they read.
DOCS_ROUTES == {"/openapi.json", "/docs", "/docs/oauth2-redirect", "/redoc"}

\* app.routes: every path mounted on the application.
routes == HandlerRoutes \cup DOCS_ROUTES

\* A path nothing is mounted on.
NONEXISTENT == "/nonexistent"

\* The texts of the exceptions the external library raises during a
\* generation (str(e)).
ErrTexts == {<<"Simulated", "error">>, <<"CUDA", "out", "of", "memory">>}

\* The text of the exception a failing load of the tokenizer or the model
\* raises.
LoadErrTexts == {<<"Model", "loading", "failed">>}

\* str(e) of the AttributeError raised by a call through a None handle.
ATTRIBUTE_ERROR == <<"'NoneType'", "object", "has", "no", "attribute">>

\* ------------------------------------------------------ request bodies

\* A JSON field is absent, null, or holds a value.
Missing == [tag |-> "missing", v |-> 0]
Null == [tag |-> "null", v |-> 0]
Val(x) == [tag |-> "val", v |-> x]

\* A text is known by its content (id) and its length in characters.
Text(id, n) == [id |-> id, len |-> n]
TextMissing == [tag |-> "missing", v |-> Text("", 0)]
TextNull == [tag |-> "null", v |-> Text("", 0)]
TextVal(id, n) == [tag |-> "val", v |-> Text(id, n)]

Body(t, ml, tp, nb) ==
    [text |-> t, max_length |-> ml, temperature |-> tp, num_beams |-> nb]

TextSamples ==
    {TextMissing, TextNull, TextVal("", 0), TextVal("a", TEXT_MIN_LENGTH),
     TextVal("b", TEXT_MAX_LENGTH), TextVal("c", TEXT_MAX_LENGTH + 1)}

MaxLengthSamples ==
    {Missing, Null, Val(MAX_LENGTH_GE - 1), Val(MAX_LENGTH_GE),
     Val(MAX_LENGTH_LE), Val(MAX_LENGTH_LE + 1)}

TemperatureSamples ==
    {Missing, Null, Val(TEMPERATURE_GE - 1), Val(TEMPERATURE_GE),
     Val(TEMPERATURE_LE), Val(TEMPERATURE_LE + 1)}

NumBeamsSamples ==
    {Missing, Null, Val(NUM_BEAMS_GE - 1), Val(NUM_BEAMS_GE),
     Val(NUM_BEAMS_LE), Val(NUM_BEAMS_LE + 1)}

\* The bodies that are wrong in exactly one field, the others left out.
OneFieldBodies ==
    {Body(t, Missing, Missing, Missing) : t \in TextSamples}
    \cup {Body(TextVal("a", TEXT_MIN_LENGTH), ml, Missing, Missing) :
            ml \in MaxLengthSamples}
    \cup {Body(TextVal("a", TEXT_MIN_LENGTH), Missing, tp, Missing) :
            tp \in TemperatureSamples}
    \cup {Body(TextVal("a", TEXT_MIN_LENGTH), Missing, Missing, nb) :
            nb \in NumBeamsSamples}

\* The bodies a client posts: a good text with the decoding parameters
\* left out, all null, or all at the lower bound of their range, and a
\* second good text with them all at the upper bound; every
\* body that is wrong in exactly one field; two that are wrong in several.
Bodies ==
    {Body(TextVal("a", TEXT_MIN_LENGTH), Missing, Missing, Missing),
     Body(TextVal("a", TEXT_MIN_LENGTH), Null, Null, Null),
     Body(TextVal("a", TEXT_MIN_LENGTH), Val(MAX_LENGTH_GE),
          Val(TEMPERATURE_GE), Val(NUM_BEAMS_GE)),
     Body(TextVal("b", TEXT_MAX_LENGTH), Val(MAX_LENGTH_LE),
          Val(TEMPERATURE_LE), Val(NUM_BEAMS_LE)),
     Body(TextVal("", 0), Val(MAX_LENGTH_LE + 1), Missing, Missing),
     Body(TextNull, Missing, Val(TEMPERATURE_GE - 1), Val(NUM_BEAMS_LE + 1))}
    \cup {b \in OneFieldBodies :
            \/ b.text.tag # "val"
            \/ b.text.v.len \notin {TEXT_MIN_LENGTH, TEXT_MAX_LENGTH}
            \/ b.max_length.tag = "val"
               /\ b.max_length.v \notin {MAX_LENGTH_GE, MAX_LENGTH_LE}
            \/ b.temperature.tag = "val"
               /\ b.temperature.v \notin {TEMPERATURE_GE, TEMPERATURE_LE}
            \/ b.num_beams.tag = "val"
               /\ b.num_beams.v \notin {NUM_BEAMS_GE, NUM_BEAMS_LE}}

\* ---------------------------------------------------------- the schema

\* text: str = Field(..., min_length=1, max_length=512): required, not
\* null, and its length within the bounds.
TextFieldOk(f) ==
    /\ f.tag = "val"
    /\ f.v.len >= TEXT_MIN_LENGTH
    /\ f.v.len <= TEXT_MAX_LENGTH

\* A faulty variant of OptionalFieldOk: bounds one off the range.
OptionalFieldOk_OffByOne(f, lo, hi) ==
    \/ f.tag = "missing"
    \/ f.tag = "null"
    \/ f.tag = "val" /\ f.v > lo - 2 /\ f.v < hi + 2

\* Optional[...] = Field(default=d, ge=lo, le=hi): an absent field takes
\* the default, an explicit null is None and passes, a value is checked
\* against ge and le.
OptionalFieldOk(f, lo, hi) ==
    \/ f.tag = "missing"
    \/ f.tag = "null"
    \/ f.tag = "val" /\ f.v >= lo /\ f.v <= hi

OptionalFieldValue(f, d) ==
    IF f.tag = "missing" THEN Val(d) ELSE f

\* Whether pydantic accepts the body as a TextGenerationRequest.
Validates(body) ==
    /\ TextFieldOk(body.text)
    /\ OptionalFieldOk(body.max_length, MAX_LENGTH_GE, MAX_LENGTH_LE)
    /\ OptionalFieldOk(body.temperature, TEMPERATURE_GE, TEMPERATURE_LE)
    /\ OptionalFieldOk(body.num_beams, NUM_BEAMS_GE, NUM_BEAMS_LE)

\* The TextGenerationRequest object built from an accepted body.
TextGenerationRequest(body) ==
    [text |-> body.text.v,
     max_length |-> OptionalFieldValue(body.max_length, MAX_LENGTH_DEFAULT),
     temperature |->
         OptionalFieldValue(body.temperature, TEMPERATURE_DEFAULT),
     num_beams |-> OptionalFieldValue(body.num_beams, NUM_BEAMS_DEFAULT)]

NoRequest ==
    [text |-> Text("", 0), max_length |-> Null, temperature |-> Null,
     num_beams |-> Null]

NoBody == Body(TextMissing, Missing, Missing, Missing)

\* -------------------------------------------------------------- state

VARIABLES
    model_name,   \* T5ModelService.model_name
    model,        \* T5ModelService.model: NoneHandle or a handle
    tokenizer,    \* T5ModelService.tokenizer: NoneHandle or a handle
    is_loaded,    \* T5ModelService.is_loaded
    device,       \* T5ModelService.device
    startup,      \* startup_event: "pending", "running" or "complete"
    loads,        \* the load_model calls: where each is, and what it raised
    gen,          \* the POST /generate requests in flight
    last,         \* the last response a client received, with its request
    pending       \* the GET requests received and not yet handled

svc == <<model_name, model, tokenizer, is_loaded, device>>
vars == <<model_name, model, tokenizer, is_loaded, device, startup, loads,
          gen, last, pending>>

LoadIds == 1..MaxLoads
Slots == 1..MaxInFlight

\* pc is where the call is: "idle", waiting for the library call that
\* asyncio.to_thread handed to a worker thread ("tokenizer", "model",
\* "encode", "generate", "decode"), or ended ("returned", "raised").
\* inline lists the library calls the coroutine itself has made, on the
\* event loop, without asyncio.to_thread.
IdleLoad == [pc |-> "idle", exc |-> <<>>, inline |-> <<>>]
IdleGen ==
    [pc |-> "idle", body |-> NoBody, request |-> NoRequest,
     inline |-> <<>>]

NoResponse ==
    [ep |-> "", status |-> 0, body |-> [none |-> TRUE], req |-> NoBody,
     call |-> [kind |-> "none"], sleep_raises |-> FALSE, seq |-> 0]

Init ==
    /\ model_name = MODEL_NAME
    /\ model = NoneHandle
    /\ tokenizer = NoneHandle
    /\ is_loaded = FALSE
    /\ device \in {"cuda", "cpu"}
    /\ startup = "pending"
    /\ loads = [k \in LoadIds |-> IdleLoad]
    /\ gen = [r \in Slots |-> IdleGen]
    /\ last = NoResponse
    /\ pending = {}

\* ------------------------------------------------------ T5ModelService

\* is_model_ready(): the derived readiness predicate.
is_model_ready ==
    is_loaded /\ model # NoneHandle /\ tokenizer # NoneHandle

\* get_model_info(): the snapshot the status handler reads.
get_model_info ==
    [model_name |-> model_name, is_loaded |-> is_loaded, device |-> device,
     model_ready |-> is_model_ready]

\* The except clause of load_model: the flag is lowered and the error is
\* raised again; the handles keep whatever the try block assigned. calls
\* are the library calls the coroutine made itself before the error.
LoadExcept(k, e, calls) ==
    /\ is_loaded' = FALSE
    /\ loads' = [loads EXCEPT ![k] =
                    [pc |-> "raised", exc |-> e, inline |-> calls]]

\* A faulty variant of AfterTokenizer: the flag is raised as soon as the
\* tokenizer is there.
AfterTokenizer_FlagEarly(k) ==
    /\ tokenizer' = k
    /\ is_loaded' = TRUE
    /\ UNCHANGED model

\* A faulty variant of AfterTokenizer: the old model is dropped while the
\* new one is loaded.
AfterTokenizer_DropsModel(k) ==
    /\ tokenizer' = k
    /\ model' = NoneHandle
    /\ UNCHANGED is_loaded

\* self.tokenizer = await ...: the handle of this call's tokenizer.
AfterTokenizer(k) ==
    /\ tokenizer' = k
    /\ UNCHANGED <<model, is_loaded>>

\* self.model = await ...: the handle of this call's model.
AfterModel(k) == model' = k

\* A faulty variant of AfterSetup: the result of a call that returns
\* nothing is assigned to self.model.
AfterSetup_LosesModel(k) ==
    /\ model' = NoneHandle
    /\ is_loaded' = TRUE

\* self.model = self.model.to(self.device); self.is_loaded = True
AfterSetup(k) ==
    /\ model' = k
    /\ is_loaded' = TRUE

\* load_model up to its first suspension: T5Tokenizer.from_pretrained is
\* handed to a worker thread.
LoadEnter(k) ==
    /\ loads[k].pc = "idle"
    /\ loads' = [loads EXCEPT ![k].pc = "tokenizer"]

\* A faulty variant of StartupAfterLoad: the error of load_model is not
\* caught and startup fails with it.
StartupAfterLoad_Propagates(k) ==
    startup' = IF k # 1 THEN startup
               ELSE IF loads'[k].pc = "raised" THEN "failed"
               ELSE "complete"

\* What startup_event does when its load_model call ends, by return or by
\* exception: it logs and completes.
StartupAfterLoad(k) ==
    startup' = IF k = 1 THEN "complete" ELSE startup

\* startup_event: calls load_model and waits for it.
StartupEvent ==
    /\ startup = "pending"
    /\ startup' = "running"
    /\ LoadEnter(1)
    /\ UNCHANGED <<svc, gen, last, pending>>

\* A direct call of load_model on the service object.
LoadModelCall(k) ==
    /\ k # 1
    /\ loads[k - 1].pc # "idle"
    /\ LoadEnter(k)
    /\ UNCHANGED <<svc, startup, gen, last, pending>>

\* The tokenizer load ends. On success the handle is stored and
\* T5ForConditionalGeneration.from_pretrained is handed to a worker.
TokenizerLoaded(k) ==
    /\ loads[k].pc = "tokenizer"
    /\ \/ /\ AfterTokenizer(k)
          /\ loads' = [loads EXCEPT ![k].pc = "model"]
          /\ UNCHANGED <<model_name, device, startup>>
       \/ /\ \E e \in LoadErrTexts : LoadExcept(k, e, <<>>)
          /\ StartupAfterLoad(k)
          /\ UNCHANGED <<model_name, model, tokenizer, device>>
    /\ UNCHANGED <<gen, last, pending>>

\* The model load ends. On success the handle is stored, eval() and
\* to(device) run on the event loop, and the flag is raised; each of the
\* three calls may raise.
ModelLoaded(k) ==
    /\ loads[k].pc = "model"
    /\ \/ \* from_pretrained raises: self.model is not assigned
          /\ \E e \in LoadErrTexts : LoadExcept(k, e, <<>>)
          /\ StartupAfterLoad(k)
          /\ UNCHANGED <<model_name, model, tokenizer, device>>
       \/ \* eval() or to(device) raises: self.model is already assigned
          /\ AfterModel(k)
          /\ \E e \in LoadErrTexts, calls \in {<<"eval">>, <<"eval", "to">>} :
                LoadExcept(k, e, calls)
          /\ StartupAfterLoad(k)
          /\ UNCHANGED <<model_name, tokenizer, device>>
       \/ \* all three succeed
          /\ AfterSetup(k)
          /\ loads' = [loads EXCEPT ![k].pc = "returned",
                                    ![k].inline = <<"eval", "to">>]
          /\ StartupAfterLoad(k)
          /\ UNCHANGED <<model_name, tokenizer, device>>
    /\ UNCHANGED <<gen, last, pending>>

\* ------------------------------------------------ responses of main.py

\* What a client receives: the endpoint, the HTTP status and the JSON
\* body, with the request body it sent and, for POST /generate, how the
\* call of model_service.generate_text made for it ended. sleep_raises
\* tells whether asyncio.sleep raised while the request was served (as it
\* does when the test-suite patches main.asyncio.sleep). seq tells one
\* response from the next.
Response(ep, status, body) ==
    [ep |-> ep, status |-> status, body |-> body, req |-> NoBody,
     call |-> [kind |-> "none"], sleep_raises |-> FALSE, seq |-> 0]

TIMESTAMP == "isoformat"

HealthResponse(status, message) ==
    [status |-> status, timestamp |-> TIMESTAMP, message |-> message]

\* FastAPI's rendering of a raised HTTPException.
HTTPException(ep, status, detail) ==
    Response(ep, status, [detail |-> detail])

\* global_exception_handler(): the answer to an exception that escapes a
\* route handler.
global_exception_handler(ep) ==
    Response(ep, 500,
        [error |-> <<"Internal", "server", "error">>,
         message |-> <<"An", "unexpected", "error", "occurred">>,
         timestamp |-> TIMESTAMP])

\* A faulty variant of root: the list of the server's first version,
\* without the model endpoints.
root_Version1 ==
    Response("/", 200,
        [name |-> <<"HuggingFace", "Model", "Inference", "Server">>,
         version |-> "2.0.0",
         description |->
             <<"FastAPI", "server", "for", "ML", "model", "inference",
               "using", "HuggingFace", "transformers">>,
         endpoints |->
             <<"/", "/health", "/health/ready", "/health/live">>])

\* The router's answer to a GET of a path without a handler in main.py:
\* a documentation page if the path is mounted, 404 if it is not.
get_path(path) ==
    IF path \in routes
    THEN Response(path, 200,
             [content_type |->
                  IF path = "/openapi.json" THEN "application/json"
                  ELSE "text/html"])
    ELSE Response(path, 404, [detail |-> <<"Not", "Found">>])

\* root()
root ==
    Response("/", 200,
        [name |-> <<"HuggingFace", "Model", "Inference", "Server">>,
         version |-> "2.0.0",
         description |->
             <<"FastAPI", "server", "for", "ML", "model", "inference",
               "using", "HuggingFace", "transformers">>,
         endpoints |-> ENDPOINTS])

\* A faulty variant of health_check: the status follows the model.
health_check_Degraded ==
    Response("/health", 200,
        HealthResponse(IF is_model_ready THEN "healthy" ELSE "degraded",
            <<"Server", "is", "running", "and", "accepting", "requests">>))

\* A faulty variant of health_check: health tied to the model state.
health_check_NeedsModel ==
    IF is_loaded
    THEN Response("/health", 200,
             HealthResponse("healthy",
                 <<"Server", "is", "running", "and", "accepting",
                   "requests">>))
    ELSE HTTPException("/health", 503, DETAIL_READY_FAILED)

\* health_check()
health_check ==
    Response("/health", 200,
        HealthResponse("healthy",
            <<"Server", "is", "running", "and", "accepting", "requests">>))

\* A faulty variant of readiness_check: readiness judged by the tokenizer
\* handle alone.
readiness_check_HandleOnly ==
    IF tokenizer # NoneHandle
    THEN Response("/health/ready", 200,
             HealthResponse("ready",
                 <<"Server", "and", "model", "are", "ready", "to", "accept",
                   "requests">>))
    ELSE HTTPException("/health/ready", 503, DETAIL_READY_NOT_LOADED)

\* readiness_check(): it reads is_model_ready() and does not suspend.
readiness_check ==
    IF is_model_ready
    THEN Response("/health/ready", 200,
             HealthResponse("ready",
                 <<"Server", "and", "model", "are", "ready", "to", "accept",
                   "requests">>))
    ELSE HTTPException("/health/ready", 503, DETAIL_READY_NOT_LOADED)

\* A faulty variant of liveness_check: the failure is reported with the
\* status code of the readiness check.
liveness_check_Unavailable(sleep_raises) ==
    IF sleep_raises
    THEN HTTPException("/health/live", 503, DETAIL_LIVE_FAILED)
    ELSE Response("/health/live", 200,
             HealthResponse("alive",
                 <<"Server", "process", "is", "alive", "and",
                   "functioning">>))

\* liveness_check(): asyncio.sleep(0.001) returns or raises.
liveness_check(sleep_raises) ==
    IF sleep_raises
    THEN HTTPException("/health/live", 500, DETAIL_LIVE_FAILED)
    ELSE Response("/health/live", 200,
             HealthResponse("alive",
                 <<"Server", "process", "is", "alive", "and",
                   "functioning">>))

\* The conditional of get_model_status on the info snapshot.
ModelStatusOf(model_info) ==
    IF model_info.model_ready THEN "ready"
    ELSE IF ~model_info.is_loaded THEN "loading"
    ELSE "error"

\* A faulty variant of get_model_status: it reaches through the model
\* handle, and fails where there is none yet.
get_model_status_NeedsHandle ==
    IF model = NoneHandle
    THEN global_exception_handler("/model/status")
    ELSE Response("/model/status", 200,
             [model_name |-> model_name, is_loaded |-> is_loaded,
              status |-> ModelStatusOf(get_model_info),
              timestamp |-> TIMESTAMP])

\* get_model_status()
get_model_status ==
    LET model_info == get_model_info
    IN  Response("/model/status", 200,
            [model_name |-> model_info.model_name,
             is_loaded |-> model_info.is_loaded,
             status |-> ModelStatusOf(model_info),
             timestamp |-> TIMESTAMP])

\* The 422 FastAPI answers when the body is no TextGenerationRequest.
ValidationError(body) ==
    [Response("/generate", 422, [detail |-> <<"validation", "error">>])
        EXCEPT !.req = body]

\* How a generate_text call ends: it returns (generated_text,
\* generation_time) or raises HTTPException(status_code, detail).
Returned(generated_text, generation_time) ==
    [kind |-> "returned", generated_text |-> generated_text,
     generation_time |-> generation_time]

\* exc is the text of the exception the library raised, if one did.
Raised(status_code, detail, exc) ==
    [kind |-> "raised", status_code |-> status_code, detail |-> detail,
     exc |-> exc]

\* A faulty variant of GenerationFailed: the error text is dropped.
GenerationFailed_NoText(e) == Raised(500, PREFIX_GENERATION_FAILED, e)

\* The except Exception clause of T5ModelService.generate_text.
GenerationFailed(e) == Raised(500, PREFIX_GENERATION_FAILED \o e, e)

\* The call ended in an exception that is no HTTPException: one raised in
\* the handler's try block outside the service's own try (by the
\* construction of the TextGenerationResponse, or by a service object
\* that raises something else).
Unexpected(e) == [kind |-> "unexpected", exc |-> e]

\* The guard at the head of T5ModelService.generate_text.
NotLoaded == Raised(503, DETAIL_GENERATE_NOT_LOADED, <<>>)

\* The text the external model and tokenizer produce for an input: the
\* decoding is deterministic, so it is a function of the input text.
Generated(text) == <<"generated", "from", text.id>>

\* A faulty variant of GenerateTextHandler: the echoed text is read from
\* a shared "current request" (the first slot) instead of this request.
GenerateTextHandler_SharedRequest(body, request, call) ==
    IF call.kind = "returned"
    THEN [Response("/generate", 200,
              [generated_text |-> call.generated_text,
               input_text |-> gen[1].request.text,
               model_name |-> model_name,
               generation_time_seconds |-> call.generation_time,
               timestamp |-> TIMESTAMP])
            EXCEPT !.req = body, !.call = call]
    ELSE IF call.kind = "raised"
    THEN [HTTPException("/generate", call.status_code, call.detail)
            EXCEPT !.req = body, !.call = call]
    ELSE [HTTPException("/generate", 500,
              PREFIX_GENERATION_FAILED \o call.exc)
            EXCEPT !.req = body, !.call = call]

\* The handler generate_text of main.py around the service call: a
\* returned pair is wrapped in a TextGenerationResponse that echoes
\* request.text, a raised HTTPException is raised again, and any other
\* exception is turned into a 500 whose detail carries its text.
GenerateTextHandler(body, request, call) ==
    IF call.kind = "returned"
    THEN [Response("/generate", 200,
              [generated_text |-> call.generated_text,
               input_text |-> request.text,
               model_name |-> model_name,
               generation_time_seconds |-> call.generation_time,
               timestamp |-> TIMESTAMP])
            EXCEPT !.req = body, !.call = call]
    ELSE IF call.kind = "raised"
    THEN [HTTPException("/generate", call.status_code, call.detail)
            EXCEPT !.req = body, !.call = call]
    ELSE [HTTPException("/generate", 500,
              PREFIX_GENERATION_FAILED \o call.exc)
            EXCEPT !.req = body, !.call = call]

\* ------------------------------------------------------ route handlers

\* The client receives a response.
Reply(response) == last' = [response EXCEPT !.seq = 1 - last.seq]

Root ==
    /\ Reply(root)
    /\ UNCHANGED <<svc, startup, loads, gen, pending>>

HealthCheck ==
    /\ Reply(health_check)
    /\ UNCHANGED <<svc, startup, loads, gen, pending>>

\* The response of a request served while asyncio.sleep behaved so.
Probed(response, sleep_raises) ==
    [response EXCEPT !.sleep_raises = sleep_raises]

\* readiness_check never calls asyncio.sleep: what sleep would do has no
\* part in its answer.
ReadinessCheck ==
    /\ \E sleep_raises \in BOOLEAN :
          Reply(Probed(readiness_check, sleep_raises))
    /\ UNCHANGED <<svc, startup, loads, gen, pending>>

LivenessCheck ==
    /\ \E sleep_raises \in BOOLEAN :
          Reply(Probed(liveness_check(sleep_raises), sleep_raises))
    /\ UNCHANGED <<svc, startup, loads, gen, pending>>

GetModelStatus ==
    /\ Reply(get_model_status)
    /\ UNCHANGED <<svc, startup, loads, gen, pending>>

GetPath(path) ==
    /\ Reply(get_path(path))
    /\ UNCHANGED <<svc, startup, loads, gen, pending>>

\* A faulty variant of NotLoadedGuard: the guard looks at the tokenizer
\* handle.
NotLoadedGuard_TokenizerOnly == tokenizer = NoneHandle

\* The guard of generate_text: if not self.is_loaded.
NotLoadedGuard == ~is_loaded

\* A generate request ends: the client gets its response and the slot is
\* free again.
Finish(r, call) ==
    /\ Reply(GenerateTextHandler(gen[r].body, gen[r].request, call))
    /\ gen' = [gen EXCEPT ![r] = IdleGen]

\* POST /generate arrives: validation, then generate_text up to its first
\* suspension (tokenizer.encode handed to a worker thread).
PostGenerate(r, body) ==
    /\ gen[r].pc = "idle"
    /\ IF ~Validates(body)
       THEN /\ Reply(ValidationError(body))
            /\ UNCHANGED gen
       ELSE LET request == TextGenerationRequest(body)
            IN  IF NotLoadedGuard
                THEN /\ Reply(GenerateTextHandler(body, request, NotLoaded))
                     /\ UNCHANGED gen
                ELSE IF tokenizer = NoneHandle
                THEN /\ Reply(GenerateTextHandler(body, request,
                                GenerationFailed(ATTRIBUTE_ERROR)))
                     /\ UNCHANGED gen
                ELSE /\ gen' = [gen EXCEPT ![r] =
                                   [pc |-> "encode", body |-> body,
                                    request |-> request,
                                    inline |-> <<>>]]
                     /\ UNCHANGED last
    /\ UNCHANGED <<svc, startup, loads, pending>>

\* A faulty variant of EncodeDone: model.generate is entered under a lock,
\* one request at a time.
EncodeDone_Locked(r) ==
    /\ gen[r].pc = "encode"
    /\ \/ \E e \in ErrTexts : Finish(r, GenerationFailed(e))
       \/ /\ model = NoneHandle \/ tokenizer = NoneHandle
          /\ Finish(r, GenerationFailed(ATTRIBUTE_ERROR))
       \/ /\ model # NoneHandle /\ tokenizer # NoneHandle
          /\ \A q \in Slots \ {r} : gen[q].pc # "generate"
          /\ gen' = [gen EXCEPT ![r].pc = "generate",
                                ![r].inline = <<"input_ids.to">>]
          /\ UNCHANGED last
    /\ UNCHANGED <<svc, startup, loads, pending>>

\* tokenizer.encode ends; on success input_ids.to(device) runs and
\* model.generate is handed to a worker thread.
EncodeDone(r) ==
    /\ gen[r].pc = "encode"
    /\ \/ \E e \in ErrTexts : Finish(r, GenerationFailed(e))
       \/ /\ model = NoneHandle \/ tokenizer = NoneHandle
          /\ Finish(r, GenerationFailed(ATTRIBUTE_ERROR))
       \/ /\ model # NoneHandle /\ tokenizer # NoneHandle
          /\ gen' = [gen EXCEPT ![r].pc = "generate",
                                ![r].inline = <<"input_ids.to">>]
          /\ UNCHANGED last
    /\ UNCHANGED <<svc, startup, loads, pending>>

\* model.generate ends; on success tokenizer.decode is handed to a worker
\* thread.
GenerateDone(r) ==
    /\ gen[r].pc = "generate"
    /\ \/ \E e \in ErrTexts : Finish(r, GenerationFailed(e))
       \/ /\ tokenizer = NoneHandle
          /\ Finish(r, GenerationFailed(ATTRIBUTE_ERROR))
       \/ /\ tokenizer # NoneHandle
          /\ gen' = [gen EXCEPT ![r].pc = "decode"]
          /\ UNCHANGED last
    /\ UNCHANGED <<svc, startup, loads, pending>>

\* A faulty variant of DecodeDone: the except clause of generate_text
\* lowers the flag, as the one of load_model does.
DecodeDone_LowersFlag(r) ==
    /\ gen[r].pc = "decode"
    /\ \/ /\ \E e \in ErrTexts : Finish(r, GenerationFailed(e))
          /\ is_loaded' = FALSE
          /\ UNCHANGED <<model_name, model, tokenizer, device>>
       \/ /\ \E elapsed \in 0..MaxElapsed :
                Finish(r, Returned(Generated(gen[r].request.text), elapsed))
          /\ UNCHANGED svc
    /\ UNCHANGED <<startup, loads, pending>>

\* tokenizer.decode ends; on success the elapsed time is read and the
\* pair is returned to the handler, whose own statements (building the
\* response) return or raise.
DecodeDone(r) ==
    /\ gen[r].pc = "decode"
    /\ \/ \E e \in ErrTexts : Finish(r, GenerationFailed(e))
       \/ \E elapsed \in 0..MaxElapsed :
            Finish(r, Returned(Generated(gen[r].request.text), elapsed))
       \/ \E e \in ErrTexts : Finish(r, Unexpected(e))
    /\ UNCHANGED <<svc, startup, loads, pending>>

\* ------------------------------------------------------ the event loop

\* A faulty variant of WorkerCalls: model.generate is called directly.
WorkerCalls_GenerateInline == {"tokenizer", "model", "encode", "decode"}

\* The library calls that are wrapped in asyncio.to_thread: while one of
\* them runs, its coroutine is suspended and the event loop is free.
WorkerCalls == {"tokenizer", "model", "encode", "generate", "decode"}

\* The event loop is not held by a coroutine: every call that is inside
\* the library is inside it on a worker thread.
LoopFree ==
    /\ \A k \in LoadIds :
          loads[k].pc \in {"idle", "returned", "raised"} \cup WorkerCalls
    /\ \A r \in Slots : gen[r].pc \in {"idle"} \cup WorkerCalls

\* The GET routes that clients request concurrently while the model is
\* busy (as the test-suite does, ten requests at a time).
QueryRoutes == {"/health", "/model/status"}

\* The bodies posted while such requests are waiting.
LiveBodies ==
    {Body(TextVal("a", TEXT_MIN_LENGTH), Missing, Missing, Missing),
     Body(TextVal("b", TEXT_MAX_LENGTH), Val(MAX_LENGTH_LE),
          Val(TEMPERATURE_LE), Val(NUM_BEAMS_LE))}

\* The handler the router runs for a GET route.
handle(ep, sleep_raises) ==
    CASE ep = "/" -> root
      [] ep = "/health" -> health_check
      [] ep = "/health/ready" -> Probed(readiness_check, sleep_raises)
      [] ep = "/health/live" ->
             Probed(liveness_check(sleep_raises), sleep_raises)
      [] ep = "/model/status" -> get_model_status

\* A GET request arrives at the server and waits for the event loop.
Arrive(ep) ==
    /\ ep \notin pending
    /\ pending' = pending \cup {ep}
    /\ UNCHANGED <<svc, startup, loads, gen, last>>

\* The event loop runs the handler of a waiting request to its end.
Serve(ep) ==
    /\ ep \in pending
    /\ LoopFree
    /\ pending' = pending \ {ep}
    /\ \E sleep_raises \in BOOLEAN : Reply(handle(ep, sleep_raises))
    /\ UNCHANGED <<svc, startup, loads, gen>>

\* ------------------------------------------------------ specifications

\* The handlers that read the state and answer at once.
Queries ==
    \/ Root
    \/ HealthCheck
    \/ ReadinessCheck
    \/ LivenessCheck
    \/ GetModelStatus
    \/ \E path \in DOCS_ROUTES \cup {NONEXISTENT} : GetPath(path)

\* POST /generate and the suspension points of generate_text.
Generation ==
    \/ \E r \in Slots, body \in Bodies : PostGenerate(r, body)
    \/ \E r \in Slots : EncodeDone(r)
    \/ \E r \in Slots : GenerateDone(r)
    \/ \E r \in Slots : DecodeDone(r)

\* startup_event's load_model call and its suspension points.
Loading ==
    \/ StartupEvent
    \/ \E k \in LoadIds : TokenizerLoaded(k)
    \/ \E k \in LoadIds : ModelLoaded(k)

\* The server process: main.py calls load_model once, from startup_event,
\* and serves every route.
ServerNext == Loading \/ Queries \/ Generation

\* The service object with any caller of load_model, and the handlers
\* that query it.
ServiceNext ==
    \/ Loading
    \/ \E k \in LoadIds : LoadModelCall(k)
    \/ Queries

\* Everything at once.
Next == ServiceNext \/ Generation

Spec == Init /\ [][Next]_vars

SpecServer == Init /\ [][ServerNext]_vars

SpecService == Init /\ [][ServiceNext]_vars

\* The server process with its requests queued for the event loop. The
\* loop runs every handler that is ready to run; nothing makes a library
\* call on a worker thread return.
LiveNext ==
    \/ Loading
    \/ \E r \in Slots, body \in LiveBodies : PostGenerate(r, body)
    \/ \E r \in Slots : EncodeDone(r)
    \/ \E r \in Slots : GenerateDone(r)
    \/ \E r \in Slots : DecodeDone(r)
    \/ \E ep \in QueryRoutes : Arrive(ep)
    \/ \E ep \in QueryRoutes : Serve(ep)

\* The body posted while the model is loaded again.
ReloadBodies ==
    {Body(TextVal("a", TEXT_MIN_LENGTH), Missing, Missing, Missing)}

\* The service object shared by POST /generate requests and by callers
\* of load_model that load again, during or after the startup load.
ReloadNext ==
    \/ Loading
    \/ \E k \in LoadIds : LoadModelCall(k)
    \/ \E r \in Slots, body \in ReloadBodies : PostGenerate(r, body)
    \/ \E r \in Slots : EncodeDone(r)
    \/ \E r \in Slots : GenerateDone(r)
    \/ \E r \in Slots : DecodeDone(r)

SpecReload == Init /\ [][ReloadNext]_vars

SpecLive ==
    /\ Init
    /\ [][LiveNext]_vars
    /\ \A ep \in QueryRoutes : WF_vars(Serve(ep))

\* ------------------------------------------------------------- claims

\* A response of endpoint ep is received in this step.
Answered(ep) == last'.seq # last.seq /\ last'.ep = ep

\* No load_model call is between its entry and its end.
NoLoadRunning == \A k \in LoadIds : loads[k].pc \notin {"tokenizer", "model"}

\* The startup load has failed and startup_event has completed.
StartupFailed == startup = "complete" /\ loads[1].pc = "raised"

\* C1: when load_model has failed, at whatever step, is_loaded is false,
\* the model handle and the tokenizer handle are both None, and
\* is_model_ready() is false. Stated for the startup call, the only load
\* of the server process, with the process at rest after it.
C1_FailedLoadClearsState ==
    StartupFailed =>
        /\ ~is_loaded
        /\ model = NoneHandle
        /\ tokenizer = NoneHandle
        /\ ~is_model_ready

\* C2: in every reachable state of the service (initial, during a load,
\* after a successful, a failed or a repeated load), is_loaded implies
\* that the model handle and the tokenizer handle are both set, so the
\* flag generate_text checks and is_model_ready() agree.
C2_LoadedImpliesHandles ==
    /\ is_loaded => (model # NoneHandle /\ tokenizer # NoneHandle)
    /\ is_loaded <=> is_model_ready

\* C2 witness: the service is loaded while a repeated load_model call,
\* made after the first one returned, is waiting for its model.
C2_Witness ==
    /\ is_loaded
    /\ loads[1].pc = "returned"
    /\ loads[2].pc = "model"
    /\ tokenizer = 2
    /\ model = 1

OutOfRange(f, lo, hi) == f.tag = "val" /\ (f.v < lo \/ f.v > hi)

C5_BadBody(b) ==
    \/ b.text.tag \in {"missing", "null"}
    \/ b.text.v.len = 0
    \/ b.text.v.len > 512
    \/ OutOfRange(b.temperature, 1, 20)
    \/ OutOfRange(b.max_length, 10, 512)
    \/ OutOfRange(b.num_beams, 1, 10)

\* C4: POST /generate with a body the schema accepts, against a service
\* that is not ready, answers 503 with a detail that says the model is not
\* loaded, hands nothing to the tokenizer or the model (no request leaves
\* the idle state) and leaves the service state as it was; the outcome is
\* the same for every such call.
C4_NotReadyGives503 ==
    [][~is_model_ready =>
        /\ \A r \in Slots : gen[r].pc = "idle" => gen'[r].pc = "idle"
        /\ (Answered("/generate") /\ gen' = gen /\ ~C5_BadBody(last'.req)) =>
              /\ last'.status = 503
              /\ last'.body.detail = DETAIL_GENERATE_NOT_LOADED
              /\ Contains(last'.body.detail, <<"not", "loaded">>)
              /\ svc' = svc]_vars

\* C4 witness: a 503 from /generate for a good body, after the startup
\* load failed.
C4_Witness ==
    /\ StartupFailed
    /\ last.ep = "/generate"
    /\ last.status = 503
    /\ ~C5_BadBody(last.req)

\* C5: a POST /generate whose body is one of the bad bodies is answered
\* 422 and generate_text is not called for it (no call outcome is
\* recorded and no request in flight carries such a body), whatever the
\* model state.
C5_BadBodyGives422 ==
    /\ (last.ep = "/generate" /\ C5_BadBody(last.req)) =>
          (last.status = 422 /\ last.call.kind = "none")
    /\ \A r \in Slots : gen[r].pc # "idle" => ~C5_BadBody(gen[r].body)

\* C5 witness: a 422 for a body whose only fault is its temperature,
\* answered by a loaded service.
C5_Witness ==
    /\ is_loaded
    /\ last.ep = "/generate"
    /\ last.status = 422
    /\ OutOfRange(last.req.temperature, 1, 20)
    /\ last.req.text.v.len = 1
    /\ last.req.max_length.tag = "missing"
    /\ last.req.num_beams.tag = "missing"

\* C6: once the startup load has failed the process stays degraded: the
\* load is not retried and load_model is not called again, the service
\* never becomes ready, GET / and GET /health keep answering 200, and
\* GET /health/ready and every POST /generate the schema accepts answer
\* 503.
C6_DegradedIsAbsorbing ==
    [][StartupFailed =>
        /\ StartupFailed'
        /\ loads' = loads
        /\ ~is_model_ready'
        /\ Answered("/") => last'.status = 200
        /\ Answered("/health") =>
              (last'.status = 200 /\ last'.body.status = "healthy")
        /\ Answered("/health/ready") => last'.status = 503
        /\ (Answered("/generate") /\ ~C5_BadBody(last'.req)) =>
              last'.status = 503]_vars

\* C6 witness: GET /health answered 200 by the degraded process, with the
\* handles of the failed load left in the service.
C6_Witness ==
    /\ StartupFailed
    /\ model # NoneHandle
    /\ last.ep = "/health"
    /\ last.status = 200

\* The status C7 describes for a service state.
C7_Expected ==
    IF is_loaded /\ model # NoneHandle /\ tokenizer # NoneHandle
    THEN "ready"
    ELSE IF ~is_loaded /\ model = NoneHandle /\ tokenizer = NoneHandle
    THEN "loading"
    ELSE "error"

\* C7: GET /model/status reports "ready" when the service is loaded and
\* ready, "loading" when it is not yet loaded, and "error" for every
\* inconsistent combination of the flag and the handles, a handle present
\* with is_loaded false included. Stated for the calls made while no load
\* is running.
C7_StatusIsTriState ==
    [][(Answered("/model/status") /\ NoLoadRunning) =>
        last'.body.status = C7_Expected]_vars

\* C8: after the startup load has failed, every GET /model/status shows
\* the status "error".
C8_FailedStartupShowsError ==
    [][(StartupFailed /\ Answered("/model/status")) =>
        last'.body.status = "error"]_vars

\* C9: the response that ends a POST /generate belongs to that request:
\* it is paired with the body that request posted, and a 200 echoes as
\* input_text the text of that body and carries the generated text and
\* the generation time that the generate_text call for it returned, the
\* generated text being the model's output for that text; a 200 is only
\* ever the end of a request in flight.
C9_ResponseCarriesOwnRequest ==
    [][/\ \A r \in Slots :
            (gen[r].pc # "idle" /\ gen'[r].pc = "idle") =>
                /\ Answered("/generate")
                /\ last'.req = gen[r].body
                /\ last'.status = 200 =>
                      /\ last'.call.kind = "returned"
                      /\ last'.body.input_text = gen[r].body.text.v
                      /\ last'.call.generated_text =
                            Generated(gen[r].body.text.v)
                      /\ last'.body.generated_text =
                            last'.call.generated_text
                      /\ last'.body.generation_time_seconds =
                            last'.call.generation_time
       /\ (Answered("/generate") /\ last'.status = 200) =>
             \E r \in Slots : gen[r].pc = "decode" /\ gen'[r].pc = "idle"
      ]_vars

\* C9 witness: a 200 echoing the text "b" while another request, for the
\* text "a", is still inside the model's generate call.
C9_Witness ==
    /\ last.ep = "/generate"
    /\ last.status = 200
    /\ last.body.input_text.id = "b"
    /\ \E r \in Slots :
          gen[r].pc = "generate" /\ gen[r].request.text.id = "a"

\* C10: a request that got past the is_loaded guard and ends with an
\* error raised by the tokenizer or the model is answered 500, never 503,
\* with the detail "Text generation failed: " followed by the text of
\* that error.
C10_GenerationErrorGives500 ==
    [][\A r \in Slots :
          (gen[r].pc # "idle" /\ gen'[r].pc = "idle"
              /\ last'.call.kind = "raised") =>
             /\ last'.status = 500
             /\ last'.call.exc \in ErrTexts \cup {ATTRIBUTE_ERROR}
             /\ last'.body.detail =
                   <<"Text", "generation", "failed", ":">> \o last'.call.exc
      ]_vars

\* C10 witness: a 500 for an error raised by the decode step of a loaded
\* service.
C10_Witness ==
    /\ is_loaded
    /\ last.ep = "/generate"
    /\ last.status = 500
    /\ last.call.exc = <<"CUDA", "out", "of", "memory">>
    /\ last.body.detail =
          <<"Text", "generation", "failed", ":", "CUDA", "out", "of",
            "memory">>

\* C11: a POST /generate that fails in another way than the service's 503
\* and 500 conditions is answered by the process-wide fallback handler: a
\* 500 whose body is {error, message, timestamp}, the generic body of
\* global_exception_handler, with none of the exception's text in it.
C11_OtherFailureIsGeneric ==
    (last.ep = "/generate" /\ last.call.kind = "unexpected") =>
        /\ last.status = 500
        /\ DOMAIN last.body = {"error", "message", "timestamp"}
        /\ last.body = global_exception_handler("/generate").body
        /\ \A f \in DOMAIN last.body :
              ~Contains(last.body[f], last.call.exc)

\* C12: GET /health is answered 200 with the status "healthy" in every
\* state of the service (not loaded, loading, ready, load failed),
\* whatever load or generate activity is going on.
C12_HealthAlwaysHealthy ==
    last.ep = "/health" =>
        /\ last.status = 200
        /\ last.body.status = "healthy"
        /\ DOMAIN last.body = {"status", "timestamp", "message"}

\* C12 witness: a healthy answer while one request is inside the model's
\* generate call and another is being decoded.
C12_Witness ==
    /\ last.ep = "/health"
    /\ last.status = 200
    /\ last.body.status = "healthy"
    /\ gen[1].pc = "generate"
    /\ gen[2].pc = "decode"

\* C13: when the asynchronous sleep fails, GET /health/ready is answered
\* 503 with a detail that contains "not ready", in every model state, a
\* ready model included.
C13_ReadyProbeFailureGives503 ==
    (last.ep = "/health/ready" /\ last.sleep_raises) =>
        /\ last.status = 503
        /\ Contains(last.body.detail, <<"not", "ready">>)

\* C14: when the asynchronous sleep fails, GET /health/live is answered
\* 500 (not the 503 of a readiness failure) with a detail that contains
\* "liveness check failed"; otherwise it is answered 200 with the status
\* "alive"; the model state plays no part.
C14_LivenessFollowsProbe ==
    last.ep = "/health/live" =>
        IF last.sleep_raises
        THEN /\ last.status = 500
             /\ last.status # 503
             /\ Contains(last.body.detail, <<"liveness", "check", "failed">>)
        ELSE /\ last.status = 200
             /\ last.body.status = "alive"

\* C14 witness: a failed liveness probe answered 500 by a service whose
\* model is ready.
C14_Witness ==
    /\ is_model_ready
    /\ last.ep = "/health/live"
    /\ last.sleep_raises
    /\ last.status = 500

\* C15: GET /health and GET /model/status requests, in any number and
\* interleaved in any order with each other and with the loading of the
\* model, are all answered 200, each with the field set and the field
\* types of its endpoint.
C15_QueriesSucceedWhileLoading ==
    /\ last.ep = "/health" =>
          /\ last.status = 200
          /\ DOMAIN last.body = {"status", "timestamp", "message"}
          /\ last.body.status \in STRING
          /\ last.body.timestamp \in STRING
          /\ last.body.message \in Seq(STRING)
    /\ last.ep = "/model/status" =>
          /\ last.status = 200
          /\ DOMAIN last.body =
                {"model_name", "is_loaded", "status", "timestamp"}
          /\ last.body.model_name \in Seq(STRING)
          /\ last.body.is_loaded \in BOOLEAN
          /\ last.body.status \in {"ready", "loading", "error"}
          /\ last.body.timestamp \in STRING

\* C15 witness: a status answered 200 between the two steps of a load
\* that runs while an earlier load has already made the service ready.
C15_Witness ==
    /\ loads[1].pc = "returned"
    /\ loads[2].pc = "model"
    /\ last.ep = "/model/status"
    /\ last.status = 200
    /\ last.body.is_loaded

\* The elements of a sequence.
Range(seq) == {seq[i] : i \in DOMAIN seq}

\* C16 as stated: the endpoints list of GET / is exactly the set of the
\* paths mounted on the application, none missing and none listed that
\* is not mounted, in the order /, /health, /health/ready, /health/live,
\* /model/status, /generate.
C16_ListsExactlyMounted ==
    last.ep = "/" =>
        /\ last.body.endpoints =
              <<"/", "/health", "/health/ready", "/health/live",
                "/model/status", "/generate">>
        /\ Range(last.body.endpoints) = routes

\* C16 amended: the endpoints list of GET / is always /, /health,
\* /health/ready, /health/live, /model/status, /generate, in this order:
\* exactly the paths main.py registers a handler on. Every listed path is
\* mounted; the mounted paths that are not listed are the documentation
\* routes; and a client is answered 404 exactly on a path that is not
\* mounted.
C16_ListsHandlerRoutes ==
    /\ last.ep = "/" =>
          /\ last.status = 200
          /\ last.body.endpoints =
                <<"/", "/health", "/health/ready", "/health/live",
                  "/model/status", "/generate">>
          /\ Range(last.body.endpoints) = HandlerRoutes
          /\ Range(last.body.endpoints) \subseteq routes
          /\ routes \ Range(last.body.endpoints) = DOCS_ROUTES
    /\ last.ep # "" => (last.status = 404 <=> last.ep \notin routes)

\* C16 witness: GET / answered with a list that leaves out a mounted
\* route, while the model is still being loaded.
C16_Witness ==
    /\ loads[1].pc = "model"
    /\ last.ep = "/"
    /\ Len(last.body.endpoints) = 6
    /\ "/docs" \in routes
    /\ "/docs" \notin Range(last.body.endpoints)

\* C17: once the service is loaded (is_loaded and is_model_ready() both
\* true) it stays loaded and ready: no later step, of a repeated or a
\* failing load_model call included, makes either false again.
C17_LoadedIsStable ==
    [][(is_loaded /\ is_model_ready) =>
          (is_loaded' /\ is_model_ready')]_vars

\* C18: load_model is the only writer of the service state: a step in
\* which a client is answered (by any route handler, POST /generate's
\* errors included) or in which a generate_text call moves on leaves
\* is_loaded, model, tokenizer, model_name and device as they were; they
\* change only in a step of a load_model call.
C18_OnlyLoadWrites ==
    [][/\ (last'.seq # last.seq \/ gen' # gen) => svc' = svc
       /\ svc' # svc => \E k \in LoadIds : loads'[k] # loads[k]]_vars

\* C18 witness: a generate_text call has ended in an error of the library
\* and the service is as the startup load left it.
C18_Witness ==
    /\ is_model_ready
    /\ model = 1
    /\ tokenizer = 1
    /\ last.ep = "/generate"
    /\ last.call.kind = "raised"
    /\ last.call.exc = <<"Simulated", "error">>

\* C19: every call of load_model and generate_text into the model
\* library (tokenizer load, model load, eval, device moves, encode,
\* generate, decode) is handed to the worker pool and awaited: no call
\* has made one itself, on the event loop.
C19_NoLibraryCallOnEventLoop ==
    /\ \A k \in LoadIds : loads[k].inline = <<>>
    /\ \A r \in Slots : gen[r].inline = <<>>

\* A POST /generate request is inside a model.generate call.
Hung == \E r \in Slots : gen[r].pc = "generate"

\* C20: while a POST /generate request is blocked in a generation call,
\* which may never return, the event loop stays responsive: every other
\* request that has arrived is eventually answered, and answering it does
\* not end the blocked request, which stays as it is until its own call
\* returns.
C20_LoopStaysResponsive ==
    /\ \A ep \in QueryRoutes :
          (ep \in pending /\ Hung) ~> (ep \notin pending)
    /\ [][\A r \in Slots :
             (gen[r].pc = "generate" /\ pending' # pending) =>
                 gen'[r] = gen[r]]_vars

\* C20 witness: both requests in flight are inside model.generate, a GET
\* /health is waiting, and a GET /model/status has been answered.
C20_Witness ==
    /\ \A r \in Slots : gen[r].pc = "generate"
    /\ pending = {"/health"}
    /\ last.ep = "/model/status"
    /\ last.status = 200

\* C21: nothing keeps two POST /generate requests apart on the shared
\* model: whatever the other requests are doing, a request on a ready
\* service can take its next step (be accepted, enter model.generate
\* after its encode, enter decode after its generate, return after its
\* decode), so that their steps interleave in any order and both can be
\* inside model.generate on the same model object at once.
C21_NoMutualExclusion ==
    is_model_ready =>
        \A r \in Slots :
            /\ gen[r].pc = "idle" =>
                  \A body \in LiveBodies :
                      ENABLED (PostGenerate(r, body)
                                  /\ gen'[r].pc = "encode")
            /\ gen[r].pc = "encode" =>
                  ENABLED (EncodeDone(r) /\ gen'[r].pc = "generate")
            /\ gen[r].pc = "generate" =>
                  ENABLED (GenerateDone(r) /\ gen'[r].pc = "decode")
            /\ gen[r].pc = "decode" =>
                  ENABLED (DecodeDone(r) /\ last'.status = 200)

\* C21 witness: two requests, for different texts, are inside
\* model.generate at once, on the one model object the startup load made.
C21_Witness ==
    /\ is_model_ready
    /\ model = 1
    /\ gen[1].pc = "generate"
    /\ gen[2].pc = "generate"
    /\ gen[1].request.text.id = "a"
    /\ gen[2].request.text.id = "b"
    /\ pending = {}

\* A decoding parameter as the service receives it is a value in lo..hi.
C22_InRange(f, lo, hi) == f.tag = "val" /\ f.v >= lo /\ f.v <= hi

\* C22: every POST /generate request that passes the schema reaches the
\* service with max_length in 10..512, temperature in 0.1..2.0 and
\* num_beams in 1..10 (150, 1.0 and 4 for a field left out): the service
\* never receives a missing or null decoding parameter.
C22_ServiceGetsValues ==
    \A r \in Slots :
        gen[r].pc # "idle" =>
            /\ C22_InRange(gen[r].request.max_length, 10, 512)
            /\ C22_InRange(gen[r].request.temperature, 1, 20)
            /\ C22_InRange(gen[r].request.num_beams, 1, 10)
            /\ gen[r].body.max_length.tag = "missing" =>
                  gen[r].request.max_length.v = 150
            /\ gen[r].body.temperature.tag = "missing" =>
                  gen[r].request.temperature.v = 10
            /\ gen[r].body.num_beams.tag = "missing" =>
                  gen[r].request.num_beams.v = 4

C24_HandlesSetInFlight ==
    /\ \A r \in Slots :
          gen[r].pc \in {"encode", "generate", "decode"} =>
              (tokenizer # NoneHandle /\ model # NoneHandle)
    /\ (last.ep = "/generate" /\ last.call.kind = "raised") =>
          last.call.exc # ATTRIBUTE_ERROR

\* C24 witness: a request is inside model.generate and another waits for
\* its encode while a repeated load has replaced the tokenizer and is
\* waiting for its model.
C24_Witness ==
    /\ gen[1].pc = "generate"
    /\ loads[1].pc = "returned"
    /\ loads[2].pc = "model"
    /\ tokenizer = 2
    /\ model = 1
    /\ gen[2].pc = "encode"

\* C25: startup_event completes, and lets no exception out, whether its
\* load_model call returns or raises: it is complete exactly when that
\* call has ended, in either way, and the process then serves; load_model
\* itself raises the error of the failed load, unchanged, to its caller.
C25_StartupAlwaysCompletes ==
    /\ startup \in {"pending", "running", "complete"}
    /\ startup = "complete" <=> loads[1].pc \in {"returned", "raised"}
    /\ startup = "running" <=> loads[1].pc \in {"tokenizer", "model"}
    /\ \A k \in LoadIds :
          /\ loads[k].pc = "raised" => loads[k].exc \in LoadErrTexts
          /\ loads[k].pc # "raised" => loads[k].exc = <<>>

\* C25 witness: startup is complete after a load that failed in eval(),
\* and the process answers a liveness probe with 200.
C25_Witness ==
    /\ startup = "complete"
    /\ loads[1].pc = "raised"
    /\ loads[1].exc = <<"Model", "loading", "failed">>
    /\ loads[1].inline = <<"eval">>
    /\ last.ep = "/health/live"
    /\ last.status = 200

====
